---------------------------- MODULE Spec2Model ----------------------------
(***************************************************************************)
(* Model of src/masks2contours/utils.py: the geometric helper functions of *)
(* the contour pipeline.  Every function of the file is a pure function of *)
(* its arguments, so the state is one call frame: the arguments of the     *)
(* call (args), the position of the call (pc) and what the call produced   *)
(* (ret: a value returned, or an exception raised to the caller).          *)
(*                                                                         *)
(* Conventions.                                                            *)
(*  - An ndarray of points is a sequence of rows, a row a tuple of         *)
(*    integers.  Index VALUES are 0-based as in the code; At(s, i) reads   *)
(*    the element the code writes s[i].                                    *)
(*  - A 2-D table whose column count matters when it has no rows is the    *)
(*    record [shape0, shape1, rows].                                       *)
(*  - Floating point lengths (np.linalg.norm, np.mean, np.std) are fixed   *)
(*    point numbers in units of 1/Scale, rounded down.                     *)
(***************************************************************************)
EXTENDS Integers, Sequences, FiniteSets, TLC

VARIABLES pc, args, ret

vars == <<pc, args, ret>>

(***************************************************************************)
(* Outcomes of a call                                                      *)
(***************************************************************************)
\* ndim is the number of axes of a returned ndarray (1: one row or a vector,
\* 2: a table of rows), 0 otherwise.
NoRet == [kind |-> "none", ndim |-> 0, val |-> <<>>]
Value(nd, v) == [kind |-> "value", ndim |-> nd, val |-> v]
Raise(e) == [kind |-> "error", ndim |-> 0, val |-> e]

(***************************************************************************)
(* Sequence and arithmetic helpers                                         *)
(***************************************************************************)
At(s, i) == s[i + 1]

Range(s) == {s[k] : k \in DOMAIN s}

Indices(s) == 0 .. (Len(s) - 1)

SeqsUpTo(S, lo, hi) == UNION {[1 .. n -> S] : n \in lo .. hi}

RECURSIVE SeqSum(_)
SeqSum(s) == IF s = <<>> THEN 0 ELSE Head(s) + SeqSum(Tail(s))

Abs(x) == IF x < 0 THEN -x ELSE x

\* Fixed-point resolution of the modelled floating point lengths.
Scale == 100

RECURSIVE ISqrtBetween(_, _, _)
ISqrtBetween(x, lo, hi) ==
    IF lo >= hi THEN lo
    ELSE LET mid == (lo + hi + 1) \div 2
         IN  IF mid * mid <= x THEN ISqrtBetween(x, mid, hi)
             ELSE ISqrtBetween(x, lo, mid - 1)

\* floor(sqrt(x)) for x >= 0
ISqrt(x) == ISqrtBetween(x, 0, IF x < 46340 THEN x ELSE 46340)

Dot(u, v) == SeqSum([k \in DOMAIN u |-> u[k] * v[k]])

VecSub(u, v) == [k \in DOMAIN u |-> u[k] - v[k]]

\* squared Euclidean length of u - v
DistSq(u, v) == Dot(VecSub(u, v), VecSub(u, v))

\* np.linalg.norm(v) of an integer vector, in units of 1/Scale
norm(v) == ISqrt(Scale * Scale * Dot(v, v))

IsZeroRow(row) == \A k \in DOMAIN row : row[k] = 0

(***************************************************************************)
(* removeZerorows (lines 236-241): arr[np.any(arr, axis = 1), :]           *)
(***************************************************************************)
removeZerorows(arr) == SelectSeq(arr, LAMBDA row : ~IsZeroRow(row))

(***************************************************************************)
(* calcApex (lines 244-257)                                                *)
(*   dist = cdist(_epiPts1, _epiPts2); the full pairwise distance matrix.  *)
(*   np.argmin(dist) is the first minimum of the flattened (row-major)     *)
(*   matrix; unravel_index(...)[0] is its row.  The square root is         *)
(*   strictly increasing on the integers modelled, so the first minimum of *)
(*   the distances is the first minimum of the squared distances.          *)
(*   np.argmin of an empty matrix raises ValueError.                       *)
(***************************************************************************)
cdist(XA, XB) == [i \in DOMAIN XA |-> [j \in DOMAIN XB |-> DistSq(XA[i], XB[j])]]

\* the flattened matrix, row-major
Ravel(dist, ncols) ==
    [k \in 1 .. (Len(dist) * ncols) |->
        dist[((k - 1) \div ncols) + 1][((k - 1) % ncols) + 1]]

\* np.argmin of a non-empty 1-D array: the 0-based index of the first minimum
argmin(flat) ==
    CHOOSE k \in Indices(flat) :
        /\ \A m \in Indices(flat) : At(flat, k) <= At(flat, m)
        /\ \A m \in Indices(flat) : m < k => At(flat, m) > At(flat, k)

calcApex(epiPts1, epiPts2) ==
    LET _epiPts1 == removeZerorows(epiPts1)
        _epiPts2 == removeZerorows(epiPts2)
    IN  IF _epiPts1 = <<>> \/ _epiPts2 = <<>>
        THEN Raise("ValueError")
        ELSE LET dist == cdist(_epiPts1, _epiPts2)
                 apexIndex == argmin(Ravel(dist, Len(_epiPts2))) \div Len(_epiPts2)
             IN  Value(1, At(epiPts1, apexIndex))

\* bounds of the calcApex inputs
MaxApexPts == 3

ApexPoints == {0, 1} \X {0, 1}

InitApex ==
    /\ pc = "call"
    /\ ret = NoRet
    /\ args \in [epiPts1 : SeqsUpTo(ApexPoints, 1, MaxApexPts),
                 epiPts2 : SeqsUpTo(ApexPoints, 1, MaxApexPts)]

CallCalcApex ==
    /\ pc = "call"
    /\ ret' = calcApex(args.epiPts1, args.epiPts2)
    /\ pc' = "done"
    /\ UNCHANGED args

SpecApex == InitApex /\ [][CallCalcApex]_vars

\* C1: for inputs that each hold a non-zero row, calcApex returns the non-zero
\* row of setA that attains the global minimum distance to a non-zero row of
\* setB, the first such in row-major order of the zero-row-filtered distance
\* matrix; the returned row is never an all-zero row.
C1_ReturnsFilteredArgmin ==
    (pc = "done" /\ removeZerorows(args.epiPts1) # <<>>
                 /\ removeZerorows(args.epiPts2) # <<>>) =>
        LET fA == removeZerorows(args.epiPts1)
            fB == removeZerorows(args.epiPts2)
            Before(i2, j2, i, j) == i2 < i \/ (i2 = i /\ j2 < j)
        IN  /\ ret.kind = "value"
            /\ ~IsZeroRow(ret.val)
            /\ \E i \in Indices(fA), j \in Indices(fB) :
                  /\ ret.val = At(fA, i)
                  /\ \A i2 \in Indices(fA), j2 \in Indices(fB) :
                        /\ DistSq(At(fA, i), At(fB, j)) <= DistSq(At(fA, i2), At(fB, j2))
                        /\ Before(i2, j2, i, j) =>
                              DistSq(At(fA, i2), At(fB, j2)) > DistSq(At(fA, i), At(fB, j))

(***************************************************************************)
(* getLAinsert (lines 111-115)                                             *)
(*   tree = KDTree(sep_points); dist, _ = tree.query(inserts): dist[k] is  *)
(*   the distance from inserts[k] to its nearest neighbour in sep_points   *)
(*   (an exact nearest-neighbour query, k = 1).  The function returns the  *)
(*   single row inserts[np.argmin(dist)].  Distances are compared by their *)
(*   squares, as in cdist above.                                           *)
(***************************************************************************)
\* KDTree(data).query(x)[0] for one query row x
KDTreeQueryDist(data, x) ==
    CHOOSE d \in {DistSq(x, data[k]) : k \in DOMAIN data} :
        \A k \in DOMAIN data : d <= DistSq(x, data[k])

\* a variant that returns the nearest tree point of the chosen query point
getLAinsertTreePoint(inserts, sep_points) ==
    LET dist == [k \in DOMAIN inserts |-> KDTreeQueryDist(sep_points, inserts[k])]
        q == At(inserts, argmin(dist))
    IN  Value(1, CHOOSE p \in Range(sep_points) : DistSq(q, p) = KDTreeQueryDist(sep_points, q))

getLAinsert(inserts, sep_points) ==
    LET dist == [k \in DOMAIN inserts |-> KDTreeQueryDist(sep_points, inserts[k])]
    IN  Value(1, At(inserts, argmin(dist)))

\* bounds of the getLAinsert inputs
MaxInserts == 3
MaxSepPts == 2

LAPoints == {<<0, 0>>, <<1, 0>>, <<2, 0>>, <<0, 1>>, <<2, 1>>}

InitLAinsert ==
    /\ pc = "call"
    /\ ret = NoRet
    /\ args \in [inserts : SeqsUpTo(LAPoints, 1, MaxInserts),
                 sep_points : SeqsUpTo(LAPoints, 1, MaxSepPts)]

CallGetLAinsert ==
    /\ pc = "call"
    /\ ret' = getLAinsert(args.inserts, args.sep_points)
    /\ pc' = "done"
    /\ UNCHANGED args

SpecLAinsert == InitLAinsert /\ [][CallGetLAinsert]_vars

\* C6 as stated: the result has one entry per query point, each the member of
\* the reference set nearest to that query point.
C6_OnePerQueryFromReference ==
    pc = "done" =>
        /\ ret.kind = "value"
        /\ ret.ndim = 2
        /\ Len(ret.val) = Len(args.inserts)
        /\ \A k \in DOMAIN args.inserts :
              /\ ret.val[k] \in Range(args.sep_points)
              /\ \A p \in Range(args.sep_points) :
                    DistSq(args.inserts[k], ret.val[k]) <= DistSq(args.inserts[k], p)

\* C6 amended: getLAinsert returns one row, a member of the QUERY points: the
\* first query point, in query order, whose distance to its nearest reference
\* point is least among all query points.
C6_ReturnsClosestQueryPoint ==
    pc = "done" =>
        /\ ret.kind = "value"
        /\ ret.ndim = 1
        /\ \E k \in DOMAIN args.inserts :
              /\ ret.val = args.inserts[k]
              /\ \A m \in DOMAIN args.inserts, p \in Range(args.sep_points) :
                    \E q \in Range(args.sep_points) :
                        DistSq(args.inserts[k], q) <= DistSq(args.inserts[m], p)
              /\ \A m \in DOMAIN args.inserts :
                    m < k => \A q \in Range(args.sep_points) :
                        \E p \in Range(args.sep_points) :
                            DistSq(args.inserts[k], p) < DistSq(args.inserts[m], q)

\* several query points, none of them a reference point, and the call returned
C6_Witness ==
    /\ pc = "done"
    /\ Len(args.inserts) = 3
    /\ Len(args.sep_points) = 2
    /\ Cardinality(Range(args.inserts)) = 3
    /\ Range(args.inserts) \cap Range(args.sep_points) = {}
    /\ ret.kind = "value"
    /\ ret.val = args.inserts[3]

(***************************************************************************)
(* sharedRows (lines 198-234)                                              *)
(*   A table is [shape0, shape1, rows]: arr.shape[0], arr.shape[1] and the *)
(*   rows; arr.size is shape0 * shape1.  The nested loops over i and j are *)
(*   unrolled by sharedRowsLoop, which carries the two index lists.        *)
(***************************************************************************)
Table(nrows, ncols, rows) == [shape0 |-> nrows, shape1 |-> ncols, rows |-> rows]

size(arr) == arr.shape0 * arr.shape1

\* np.all(arr1[i, :] == arr2[j, :]) for rows of equal length
RowsEqual(r1, r2) == \A c \in DOMAIN r1 : r1[c] = r2[c]

RECURSIVE sharedRowsLoop(_, _, _, _, _, _)
sharedRowsLoop(arr1, arr2, i, j, sharedIndicesArr1, sharedIndicesArr2) ==
    IF i >= arr1.shape0 THEN <<sharedIndicesArr1, sharedIndicesArr2>>
    ELSE IF j >= arr2.shape0
    THEN sharedRowsLoop(arr1, arr2, i + 1, 0, sharedIndicesArr1, sharedIndicesArr2)
    ELSE IF i \in Range(sharedIndicesArr1) \/ j \in Range(sharedIndicesArr2)
    THEN sharedRowsLoop(arr1, arr2, i, j + 1, sharedIndicesArr1, sharedIndicesArr2)
    ELSE IF RowsEqual(At(arr1.rows, i), At(arr2.rows, j))
    THEN sharedRowsLoop(arr1, arr2, i, j + 1,
                        Append(sharedIndicesArr1, i), Append(sharedIndicesArr2, j))
    ELSE sharedRowsLoop(arr1, arr2, i, j + 1, sharedIndicesArr1, sharedIndicesArr2)

\* a loop that forgets which rows of arr2 are already paired
RECURSIVE sharedRowsLoopReuse(_, _, _, _, _, _)
sharedRowsLoopReuse(arr1, arr2, i, j, sharedIndicesArr1, sharedIndicesArr2) ==
    IF i >= arr1.shape0 THEN <<sharedIndicesArr1, sharedIndicesArr2>>
    ELSE IF j >= arr2.shape0
    THEN sharedRowsLoopReuse(arr1, arr2, i + 1, 0, sharedIndicesArr1, sharedIndicesArr2)
    ELSE IF i \in Range(sharedIndicesArr1)
    THEN sharedRowsLoopReuse(arr1, arr2, i, j + 1, sharedIndicesArr1, sharedIndicesArr2)
    ELSE IF RowsEqual(At(arr1.rows, i), At(arr2.rows, j))
    THEN sharedRowsLoopReuse(arr1, arr2, i, j + 1,
                        Append(sharedIndicesArr1, i), Append(sharedIndicesArr2, j))
    ELSE sharedRowsLoopReuse(arr1, arr2, i, j + 1, sharedIndicesArr1, sharedIndicesArr2)

\* the index lists of the shared rows (lines 216-225)
sharedIndicesReuse(arr1, arr2) == sharedRowsLoopReuse(arr1, arr2, 0, 0, <<>>, <<>>)

sharedIndices(arr1, arr2) == sharedRowsLoop(arr1, arr2, 0, 0, <<>>, <<>>)

\* the returned list [_sharedRows, sharedIndicesArr1, sharedIndicesArr2]
sharedRowsResult(arr1, arr2) ==
    LET idx == sharedIndices(arr1, arr2)
        _sharedRows == [k \in DOMAIN idx[1] |-> At(arr1.rows, idx[1][k])]
    IN  Value(0, <<_sharedRows, idx[1], idx[2]>>)

\* a variant that compares the shapes before it looks for empty inputs
sharedRowsShapeFirst(arr1, arr2) ==
    IF arr1.shape1 # arr2.shape1
    THEN Raise("ValueError")
    ELSE IF size(arr1) = 0 \/ size(arr2) = 0
    THEN Value(0, <<<<>>, <<>>, <<>>>>)
    ELSE sharedRowsResult(arr1, arr2)

sharedRows(arr1, arr2) ==
    IF size(arr1) = 0 \/ size(arr2) = 0
    THEN Value(0, <<<<>>, <<>>, <<>>>>)
    ELSE IF arr1.shape1 # arr2.shape1
    THEN Raise("ValueError")
    ELSE sharedRowsResult(arr1, arr2)

\* bounds of the sharedRows inputs
MaxSharedRows == 3

SharedVals == {0, 1}

ColumnCounts == {1, 2}

SharedTables(maxRows) ==
    UNION {{Table(n, c, rows) : rows \in [1 .. n -> [1 .. c -> SharedVals]]} :
              n \in 0 .. maxRows, c \in ColumnCounts}

InitShared ==
    /\ pc = "call"
    /\ ret = NoRet
    /\ args \in [arr1 : SharedTables(MaxSharedRows), arr2 : SharedTables(MaxSharedRows)]

CallSharedRows ==
    /\ pc = "call"
    /\ ret' = sharedRows(args.arr1, args.arr2)
    /\ pc' = "done"
    /\ UNCHANGED args

SpecShared == InitShared /\ [][CallSharedRows]_vars

NoDuplicates(s) == \A k, m \in DOMAIN s : k # m => s[k] # s[m]

C8_UnequalColumnsAlwaysRaise ==
    (pc = "done" /\ args.arr1.shape1 # args.arr2.shape1) => ret.kind = "error"

\* C8 amended: unequal column counts raise ValueError when both tables are
\* non-empty; when either table is empty (size 0) the emptiness test comes
\* first and three empty results are returned without an error, whatever the
\* column counts.
C8_UnequalColumnsRaiseUnlessEmpty ==
    (pc = "done" /\ args.arr1.shape1 # args.arr2.shape1) =>
        IF size(args.arr1) = 0 \/ size(args.arr2) = 0
        THEN ret = Value(0, <<<<>>, <<>>, <<>>>>)
        ELSE ret = Raise("ValueError")

\* a table without rows met a non-empty table of another column count
C8_Witness ==
    /\ pc = "done"
    /\ args.arr1.shape0 = 0
    /\ args.arr1.shape1 = 1
    /\ args.arr2.shape0 = 2
    /\ args.arr2.shape1 = 2
    /\ ret.kind = "value"

(***************************************************************************)
(* deleteHelper (lines 174-196)                                            *)
(*   arr is a sequence (an ndarray or a list along axis 0).  indices is    *)
(*   [type, v]: a Python list of 0-based indices ("list"), or a boolean    *)
(*   ndarray used as a mask ("mask").  np.delete with a list removes the   *)
(*   rows at the listed indices; with a boolean mask of arr's length it    *)
(*   removes the rows where the mask is True.                              *)
(***************************************************************************)
IndexList(v) == [type |-> "list", v |-> v]
Mask(v) == [type |-> "mask", v |-> v]

RECURSIVE Keep(_, _, _)
\* arr without its rows at the 0-based positions in drop; k is the position of Head(arr)
Keep(arr, drop, k) ==
    IF arr = <<>> THEN <<>>
    ELSE IF k \in drop THEN Keep(Tail(arr), drop, k + 1)
    ELSE <<Head(arr)>> \o Keep(Tail(arr), drop, k + 1)

np_delete(arr, indices) ==
    IF indices.type = "mask"
    THEN Keep(arr, {k \in Indices(arr) : At(indices.v, k)}, 0)
    ELSE Keep(arr, Range(indices.v), 0)

deleteHelper(arr, indices) ==
    IF arr = <<>> THEN arr                                      \* lines 188-189
    ELSE IF indices.type = "mask" /\ indices.v = <<>> THEN arr  \* lines 193-194
    ELSE np_delete(arr, indices)

(***************************************************************************)
(* pointDistances (lines 156-172)                                          *)
(***************************************************************************)
pointDistances(points) ==
    LET numPts == Len(points)
    IN  [k \in 1 .. numPts |->
            LET i == k - 1
            IN  IF i = numPts - 1
                THEN norm(VecSub(At(points, i), At(points, 0)))
                ELSE norm(VecSub(At(points, i + 1), At(points, i)))]

(***************************************************************************)
(* np.mean and np.std of a non-empty vector of fixed-point numbers.        *)
(* np.std(x, ddof) is sqrt(sum((x - mean)^2) / (n - ddof)); with           *)
(* n - ddof = 0 numpy returns nan, and every comparison with nan is False. *)
(***************************************************************************)
mean(x) == SeqSum(x) \div Len(x)

SumSqDev(x) ==
    LET m == mean(x)
    IN  SeqSum([k \in DOMAIN x |-> (x[k] - m) * (x[k] - m)])

std(x, ddof) == ISqrt(SumSqDev(x) \div (Len(x) - ddof))

\* the vector  x > np.mean(x) + factor * np.std(x, ddof)
AboveThreshold(x, factor, ddof) ==
    IF Len(x) - ddof = 0 THEN [k \in DOMAIN x |-> FALSE]
    ELSE LET upperThreshold == mean(x) + factor * std(x, ddof)
         IN  [k \in DOMAIN x |-> x[k] > upperThreshold]

\* np.nonzero(b)[0]: the 0-based indices where b is True, ascending
RECURSIVE nonzero(_, _)
nonzero(b, k) ==
    IF k >= Len(b) THEN <<>>
    ELSE IF At(b, k) THEN <<k>> \o nonzero(b, k + 1)
    ELSE nonzero(b, k + 1)

(***************************************************************************)
(* removeFarPoints (lines 117-154)                                         *)
(*   np.size(oldPoints) is the number of ELEMENTS of the m x 2 array.      *)
(***************************************************************************)
np_size(arr) == IF arr = <<>> THEN 0 ELSE Len(arr) * Len(arr[1])

\* the for loop of lines 145-149, from index i on
RECURSIVE farLoop(_, _, _, _)
farLoop(oldPoints, far_indices, i, indicesToRemove) ==
    IF i >= Len(far_indices) - 1 THEN indicesToRemove
    ELSE IF At(far_indices, i) = 0
            /\ far_indices[Len(far_indices)] = np_size(oldPoints) - 1
    THEN farLoop(oldPoints, far_indices, i + 1,
                 Append(indicesToRemove, At(far_indices, i)))
    ELSE IF At(far_indices, i + 1) - At(far_indices, i) = 1
    THEN farLoop(oldPoints, far_indices, i + 1,
                 Append(indicesToRemove, At(far_indices, i + 1)))
    ELSE farLoop(oldPoints, far_indices, i + 1, indicesToRemove)

removeFarPoints(oldPoints) ==
    IF Len(oldPoints) <= 2 THEN Value(2, oldPoints)
    ELSE LET distances == pointDistances(oldPoints)
             far_indices == nonzero(AboveThreshold(distances, 2, 0), 0)
         IN  IF Len(far_indices) > 1
             THEN Value(2, deleteHelper(oldPoints,
                            IndexList(farLoop(oldPoints, far_indices, 0, <<>>))))
             ELSE Value(2, oldPoints)

\* bound of the removeFarPoints inputs
MaxFarPts == 11

FarPoints == {<<0, 0>>, <<3, 4>>}

InitFar ==
    /\ pc = "call"
    /\ ret = NoRet
    /\ args \in [oldPoints : SeqsUpTo(FarPoints, 0, MaxFarPts)]

CallRemoveFarPoints ==
    /\ pc = "call"
    /\ ret' = removeFarPoints(args.oldPoints)
    /\ pc' = "done"
    /\ UNCHANGED args

SpecFar == InitFar /\ [][CallRemoveFarPoints]_vars

\* the set F of C3: the indices whose cyclic successor distance exceeds
\* mean + 2 * standard deviation
FarSet(points) ==
    {i \in Indices(points) : At(AboveThreshold(pointDistances(points), 2, 0), i)}

\* C3: for n > 2 rows removeFarPoints removes exactly the points far from both
\* neighbours: point i+1 when i and i+1 are in F, and point 0 when n-1 and 0
\* are in F (the wrap-around); every other point is kept, in its order.
C3_RemovesExactlyDoublyFar ==
    (pc = "done" /\ Len(args.oldPoints) > 2) =>
        LET n == Len(args.oldPoints)
            F == FarSet(args.oldPoints)
            removed == {i + 1 : i \in {i2 \in F : i2 + 1 < n /\ i2 + 1 \in F}}
                       \cup (IF (n - 1) \in F /\ 0 \in F THEN {0} ELSE {})
        IN  /\ ret.kind = "value"
            /\ ret.val = Keep(args.oldPoints, removed, 0)

(***************************************************************************)
(* getRVinsertIndices (lines 89-108)                                       *)
(***************************************************************************)
\* np.argmax of a non-empty 1-D array: the 0-based index of the first maximum
argmax(x) ==
    CHOOSE k \in Indices(x) :
        /\ \A m \in Indices(x) : At(x, k) >= At(x, m)
        /\ \A m \in Indices(x) : m < k => At(x, m) < At(x, k)

\* a variant without the threshold test: the largest gap is always reported
getRVinsertIndicesNoThreshold(points) ==
    LET distances == pointDistances(points)
        largestDistIndex == argmax(distances)
    IN  IF largestDistIndex = Len(points) - 1
        THEN Value(1, <<0, largestDistIndex>>)
        ELSE Value(1, <<largestDistIndex, largestDistIndex + 1>>)

getRVinsertIndices(points) ==
    LET distances == pointDistances(points)
        large == AboveThreshold(distances, 3, 1)
        largeDistExists == \E k \in DOMAIN large : large[k]
    IN  IF largeDistExists
        THEN LET largestDistIndex == argmax(distances)
             IN  IF largestDistIndex = Len(points) - 1
                 THEN Value(1, <<0, largestDistIndex>>)
                 ELSE Value(1, <<largestDistIndex, largestDistIndex + 1>>)
        ELSE Value(1, <<>>)

\* bound of the getRVinsertIndices inputs
MaxRVPts == 11

\* Input contours: a walk from (0,0) by steps of RVSteps, started at any of its
\* points (a rotation of the cyclic sequence).
RVSteps == {<<1, 0>>, <<1, 10>>}

RECURSIVE Walk(_, _)
Walk(start, steps) ==
    IF steps = <<>> THEN <<start>>
    ELSE <<start>> \o Walk(<<start[1] + Head(steps)[1], start[2] + Head(steps)[2]>>,
                           Tail(steps))

Rotate(s, r) == [k \in DOMAIN s |-> s[((k - 1 + r) % Len(s)) + 1]]

RVContours(maxPts) ==
    UNION {{Rotate(Walk(<<0, 0>>, steps), r) : r \in 0 .. Len(steps)} :
              steps \in SeqsUpTo(RVSteps, 0, maxPts - 1)}

InitRV ==
    /\ pc = "call"
    /\ ret = NoRet
    /\ args \in [points : RVContours(MaxRVPts)]

CallGetRVinsertIndices ==
    /\ pc = "call"
    /\ ret' = getRVinsertIndices(args.points)
    /\ pc' = "done"
    /\ UNCHANGED args

SpecRV == InitRV /\ [][CallGetRVinsertIndices]_vars

\* the cyclic four-point sequence of C4
GapScenario == <<<<0, 0>>, <<1, 0>>, <<2, 0>>, <<3, 10>>>>

\* C4 as stated: on the four points the index pair (2,3) is returned.
C4_ScenarioReturnsPair23 ==
    (pc = "done" /\ args.points = GapScenario) => ret = Value(1, <<2, 3>>)

\* C4 amended: on the four points the result is empty: no cyclic distance
\* exceeds mean + 3 * sample standard deviation (and the largest distance is
\* the wrap-around one, from (3,10) back to (0,0), not the one from (2,0)).
C4_ScenarioReturnsEmpty ==
    (pc = "done" /\ args.points = GapScenario) =>
        /\ ret = Value(1, <<>>)
        /\ argmax(pointDistances(args.points)) = 3

C4_Witness == pc = "done" /\ args.points = GapScenario /\ ret.kind = "value"

(***************************************************************************)
(* interpTime (lines 313-332)                                              *)
(*   oldValvePts[f][i][j]: frame f, landmark i, coordinate j, integers.    *)
(*   Interpolated values are exact rationals <<numerator, denominator>> in *)
(*   lowest terms.  Inputs have two frames or more (np.squeeze of a single *)
(*   frame is 0-dimensional).                                              *)
(***************************************************************************)
RECURSIVE GCD(_, _)
GCD(a, b) == IF b = 0 THEN a ELSE GCD(b, a % b)

Rat(num, den) ==
    LET g == GCD(Abs(num), den)
    IN  <<num \div g, den \div g>>

\* np.interp(np.linspace(1, 100, n), np.linspace(1, 100, len(fp)), fp):
\* query t (0-based) lies at t * (len(fp) - 1) / (n - 1) sample spacings
np_interp(n, fp) ==
    [q \in 1 .. n |->
        IF Len(fp) = 1 \/ n = 1 THEN Rat(fp[1], 1)
        ELSE LET pos == (q - 1) * (Len(fp) - 1)
                 m == pos \div (n - 1)
                 r == pos % (n - 1)
             IN  IF r = 0 THEN Rat(At(fp, m), 1)
                 ELSE Rat(At(fp, m) * (n - 1) + (At(fp, m + 1) - At(fp, m)) * r, n - 1)]

\* lines 323-324: the samples of pair (i, j) with the zeros deleted
sampledValues(oldValvePts, i, j) ==
    LET column == [f \in DOMAIN oldValvePts |-> At(At(oldValvePts[f], i), j)]
    IN  deleteHelper(column, Mask([f \in DOMAIN column |-> column[f] = 0]))

shape1(oldValvePts) == Len(oldValvePts[1])
shape2(oldValvePts) == Len(oldValvePts[1][1])

\* line 330, np.zeros(newNumInterpSamples, 1): the second positional parameter
\* of np.zeros is the dtype, and 1 is no dtype: TypeError
zerosCall(newNumInterpSamples) == Raise("TypeError")

\* one pass of the loop body (lines 323-330) for pair (i, j)
interpColumn(oldValvePts, newNumInterpSamples, i, j) ==
    LET sv == sampledValues(oldValvePts, i, j)
    IN  IF Len(sv) # 0
        THEN Value(1, np_interp(newNumInterpSamples, sv))
        ELSE zerosCall(newNumInterpSamples)

interpTime(oldValvePts, newNumInterpSamples) ==
    LET pairs == (0 .. (shape1(oldValvePts) - 1)) \X (0 .. (shape2(oldValvePts) - 1))
        col(i, j) == interpColumn(oldValvePts, newNumInterpSamples, i, j)
    IN  IF \E p \in pairs : col(p[1], p[2]).kind = "error"
        THEN Raise("TypeError")
        ELSE Value(3, [f \in 1 .. newNumInterpSamples |->
                         [i \in 1 .. shape1(oldValvePts) |->
                            [j \in 1 .. shape2(oldValvePts) |-> col(i - 1, j - 1).val[f]]]])

\* bounds of the interpTime inputs
MaxFrames == 3
MaxSamples == 3

SampleVals == {0, 1, 3}

InterpArrays(maxFrames) ==
    UNION {[1 .. f -> [1 .. 1 -> [1 .. 2 -> SampleVals]]] : f \in 2 .. maxFrames}

InitInterp ==
    /\ pc = "call"
    /\ ret = NoRet
    /\ args \in [oldValvePts : InterpArrays(MaxFrames), newNumInterpSamples : 1 .. MaxSamples]

CallInterpTime ==
    /\ pc = "call"
    /\ ret' = interpTime(args.oldValvePts, args.newNumInterpSamples)
    /\ pc' = "done"
    /\ UNCHANGED args

SpecInterp == InitInterp /\ [][CallInterpTime]_vars

\* the column of pair (i, j) that C2 and C9 expect: the non-zero samples
\* interpolated onto n frames, or n zeros when every sample is zero
ExpectedColumn(oldValvePts, n, i, j) ==
    LET column == [f \in DOMAIN oldValvePts |-> At(At(oldValvePts[f], i), j)]
        nz == SelectSeq(column, LAMBDA v : v # 0)
    IN  IF nz = <<>> THEN [q \in 1 .. n |-> <<0, 1>>] ELSE np_interp(n, nz)

AllZeroPair(oldValvePts, i, j) ==
    \A f \in DOMAIN oldValvePts : At(At(oldValvePts[f], i), j) = 0

\* C2: when every sample of some (landmark, coordinate) pair is zero, interpTime
\* completes without error, the output column of that pair is targetFrameCount
\* zeros, and the other pairs are interpolated.
C2_AllZeroPairGivesZeros ==
    (pc = "done" /\ \E i \in 0 .. (shape1(args.oldValvePts) - 1),
                       j \in 0 .. (shape2(args.oldValvePts) - 1) :
                        AllZeroPair(args.oldValvePts, i, j)) =>
        /\ ret.kind = "value"
        /\ Len(ret.val) = args.newNumInterpSamples
        /\ \A f \in 1 .. args.newNumInterpSamples,
              i \in 0 .. (shape1(args.oldValvePts) - 1),
              j \in 0 .. (shape2(args.oldValvePts) - 1) :
                At(At(ret.val[f], i), j) =
                    ExpectedColumn(args.oldValvePts, args.newNumInterpSamples, i, j)[f]

(***************************************************************************)
(* manuallyCompileValvePoints (lines 259-311)                              *)
(*   mat_files is the list of loaded files in glob order; a file is a      *)
(*   record of its four variables, each Var(array) for a frame x 2 x 3     *)
(*   array, or Absent when the file does not hold the variable.            *)
(*   file["point_coords_mv"] raises KeyError when the variable is absent.  *)
(*   frameNum is a valid frame index (0 <= frameNum < numFrames).          *)
(***************************************************************************)
Absent == [present |-> FALSE, data |-> <<>>]
Var(track) == [present |-> TRUE, data |-> track]

\* np.zeros((2, 3)), lines 275-277
zeros23 == [i \in 1 .. 2 |-> [j \in 1 .. 3 |-> <<0, 1>>]]

\* lines 281-285 for one file: the row of mv, or the exception raised
mvRow(file, numFrames, frameNum) ==
    IF ~file.mv.present THEN Raise("KeyError")
    ELSE LET tmp == interpTime(file.mv.data, numFrames)
         IN  IF tmp.kind = "error" THEN tmp ELSE Value(2, At(tmp.val, frameNum))

\* get_interp_mat_var (lines 287-297); the result None is NoRet
RECURSIVE get_interp_mat_var(_, _, _, _)
get_interp_mat_var(mat_files, mat_var, numFrames, frameNum) ==
    IF mat_files = <<>> THEN NoRet
    ELSE IF Head(mat_files)[mat_var].present
    THEN LET result == interpTime(Head(mat_files)[mat_var].data, numFrames)
         IN  IF result.kind = "error" THEN result
             ELSE Value(2, At(result.val, frameNum))
    ELSE get_interp_mat_var(Tail(mat_files), mat_var, numFrames, frameNum)

\* lines 304-309: the placeholder unless a value was found
orZeros(found) == IF found.kind = "none" THEN zeros23 ELSE found.val

manuallyCompileValvePoints(mat_files, numFrames, frameNum) ==
    LET rows == [k \in DOMAIN mat_files |-> mvRow(mat_files[k], numFrames, frameNum)]
        _tv == get_interp_mat_var(mat_files, "tv", numFrames, frameNum)
        _av == get_interp_mat_var(mat_files, "av", numFrames, frameNum)
        _pv == get_interp_mat_var(mat_files, "pv", numFrames, frameNum)
    IN  IF \E k \in DOMAIN rows : rows[k].kind = "error"
        THEN rows[CHOOSE k \in DOMAIN rows :
                     /\ rows[k].kind = "error"
                     /\ \A m \in DOMAIN rows : m < k => rows[m].kind # "error"]
        ELSE IF _tv.kind = "error" THEN _tv
        ELSE IF _av.kind = "error" THEN _av
        ELSE IF _pv.kind = "error" THEN _pv
        ELSE Value(0, [mv |-> [k \in DOMAIN rows |-> rows[k].val],
                       tv |-> orZeros(_tv), av |-> orZeros(_av), pv |-> orZeros(_pv)])

\* bounds of the manuallyCompileValvePoints inputs
MaxFiles == 2
MaxNumFrames == 2

\* two landmark tracks of three frames: one with a missing (zero) middle frame,
\* one whose third coordinate is zero in every frame
TrackGap ==
    << <<<<1, 2, 3>>, <<4, 5, 6>>>>,
       <<<<0, 0, 0>>, <<0, 0, 0>>>>,
       <<<<3, 6, 5>>, <<8, 5, 2>>>> >>

TrackFlat ==
    << <<<<1, 2, 0>>, <<4, 5, 0>>>>,
       <<<<2, 3, 0>>, <<5, 6, 0>>>>,
       <<<<4, 3, 0>>, <<7, 6, 0>>>> >>

MatVars == {Var(TrackGap), Var(TrackFlat), Absent}

MatFiles == [mv : MatVars, tv : MatVars, av : MatVars, pv : MatVars]

InitValve ==
    /\ pc = "call"
    /\ ret = NoRet
    /\ args \in {a \in [mat_files : SeqsUpTo(MatFiles, 0, MaxFiles),
                        numFrames : 1 .. MaxNumFrames,
                        frameNum : 0 .. (MaxNumFrames - 1)] :
                    a.frameNum < a.numFrames}

CallManuallyCompileValvePoints ==
    /\ pc = "call"
    /\ ret' = manuallyCompileValvePoints(args.mat_files, args.numFrames, args.frameNum)
    /\ pc' = "done"
    /\ UNCHANGED args

SpecValve == InitValve /\ [][CallManuallyCompileValvePoints]_vars

\* frame frameNum of the track C9 expects interpolateTrack to produce
ExpectedFrame(track, numFrames, frameNum) ==
    [i \in 1 .. 2 |-> [j \in 1 .. 3 |->
        ExpectedColumn(track, numFrames, i - 1, j - 1)[frameNum + 1]]]

\* the first file, in load order, that contains variable v (when one does)
FirstWith(mat_files, v) ==
    CHOOSE k \in DOMAIN mat_files :
        /\ mat_files[k][v].present
        /\ \A m \in DOMAIN mat_files : m < k => ~mat_files[m][v].present

\* C9: for each optional landmark and any sequence of loaded files (each with
\* its mitral variable): absent from every file, the result is the all-zero
\* 2x3 placeholder; otherwise it is frame frameIndex of interpolateTrack applied
\* to the variable of the first file containing it; no error is produced and
\* every optional result is a 2x3 table.
C9_OptionalLandmarksResolve ==
    (pc = "done" /\ \A k \in DOMAIN args.mat_files : args.mat_files[k].mv.present) =>
        /\ ret.kind = "value"
        /\ \A v \in {"tv", "av", "pv"} :
              /\ Len(ret.val[v]) = 2
              /\ \A i \in 1 .. 2 : Len(ret.val[v][i]) = 3
              /\ IF \A k \in DOMAIN args.mat_files : ~args.mat_files[k][v].present
                 THEN ret.val[v] = zeros23
                 ELSE ret.val[v] =
                        ExpectedFrame(args.mat_files[FirstWith(args.mat_files, v)][v].data,
                                      args.numFrames, args.frameNum)

(***************************************************************************)
(* fitLine3D (lines 9-31)                                                  *)
(*   Coordinates are fixed-point numbers (units of 1/Scale).               *)
(*   np.linalg.svd is modelled where its first right-singular vector       *)
(*   vh[0, :] is an axis unit vector: the centred table is all zero (every *)
(*   orthonormal vh is a valid decomposition, so every axis unit vector    *)
(*   may come first), or its rows all lie along one axis.  For a table     *)
(*   without rows np.mean gives nan with a warning and the outcome is that *)
(*   of np.linalg.svd on a 0 x 3 matrix, which depends on the numpy used:  *)
(*   LinAlgError, or an identity vh and then an empty residual vector.     *)
(***************************************************************************)
AxisUnits == {<<1, 0, 0>>, <<0, 1, 0>>, <<0, 0, 1>>,
              <<-1, 0, 0>>, <<0, -1, 0>>, <<0, 0, -1>>}

AlongAxis(row, e) == \A c \in 1 .. 3 : e[c] = 0 => row[c] = 0

\* the rows vh[0, :] that np.linalg.svd(tmp) can return, tmp with a row or more
svdFirstRight(tmp) ==
    IF \A k \in DOMAIN tmp : IsZeroRow(tmp[k]) THEN AxisUnits
    ELSE {e \in AxisUnits : \A k \in DOMAIN tmp : AlongAxis(tmp[k], e)}

\* line 16: the mean of each column
colMeansOf(points) ==
    [c \in 1 .. 3 |-> SeqSum([k \in DOMAIN points |-> Scale * points[k][c]]) \div Len(points)]

\* lines 17, 25-31 for a given vh[0, :]; newPoints lacks the + colMeans of line 27
residualsNoMeans(points, coeff) ==
    LET colMeans == colMeansOf(points)
        tmp == [k \in DOMAIN points |-> [c \in 1 .. 3 |-> Scale * points[k][c] - colMeans[c]]]
        b == [k \in DOMAIN points |-> Dot(tmp[k], coeff)]
        newPoints == [k \in DOMAIN points |-> [c \in 1 .. 3 |-> coeff[c] * b[k]]]
    IN  [k \in DOMAIN points |->
            ISqrt(DistSq(newPoints[k], [c \in 1 .. 3 |-> Scale * points[k][c]]))]

\* lines 17, 25-31 for a given vh[0, :]
residuals(points, coeff) ==
    LET colMeans == colMeansOf(points)
        tmp == [k \in DOMAIN points |-> [c \in 1 .. 3 |-> Scale * points[k][c] - colMeans[c]]]
        b == [k \in DOMAIN points |-> Dot(tmp[k], coeff)]
        newPoints == [k \in DOMAIN points |-> [c \in 1 .. 3 |-> coeff[c] * b[k] + colMeans[c]]]
    IN  [k \in DOMAIN points |->
            ISqrt(DistSq(newPoints[k], [c \in 1 .. 3 |-> Scale * points[k][c]]))]

\* the centred table of line 17
centred(points) ==
    LET colMeans == colMeansOf(points)
    IN  [k \in DOMAIN points |-> [c \in 1 .. 3 |-> Scale * points[k][c] - colMeans[c]]]

\* the set of outcomes of fitLine3D(points)
fitLine3D(points) ==
    IF points = <<>>
    THEN {Raise("LinAlgError"), Value(1, <<>>)}
    ELSE {Value(1, residuals(points, coeff)) : coeff \in svdFirstRight(centred(points))}

\* bounds of the fitLine3D inputs
MaxFitRows == 2
MaxFitCoord == 2

FitPoints == (0 .. MaxFitCoord) \X (0 .. MaxFitCoord) \X (0 .. MaxFitCoord)

InitFit ==
    /\ pc = "call"
    /\ ret = NoRet
    /\ \/ args \in {a \in [points : SeqsUpTo(FitPoints, 1, MaxFitRows)] :
                       svdFirstRight(centred(a.points)) # {}}
       \/ args = [points |-> <<>>]

CallFitLine3D ==
    /\ pc = "call"
    /\ \E outcome \in fitLine3D(args.points) : ret' = outcome
    /\ pc' = "done"
    /\ UNCHANGED args

SpecFit == InitFit /\ [][CallFitLine3D]_vars

\* C5 as stated: with fewer than 2 rows fitLine3D always ends in an error and
\* never returns a residual vector.
C5_FewerThanTwoRowsRaise ==
    (pc = "done" /\ Len(args.points) < 2) => ret.kind = "error"

\* C5 amended: fitLine3D has no row-count guard; with exactly 1 row it raises
\* nothing and returns the one-element residual vector [0].
C5_OneRowReturnsZeroResidual ==
    (pc = "done" /\ Len(args.points) = 1) => ret = Value(1, <<0>>)

\* a single point away from the origin was fitted
C5_Witness ==
    /\ pc = "done"
    /\ Len(args.points) = 1
    /\ ~IsZeroRow(args.points[1])
    /\ ret.kind = "value"

(***************************************************************************)
(* lineNormals2D (lines 33-86), lineIndices = None                         *)
(*   vertices is a float table with integer-valued coordinates.            *)
(*   Intermediate quantities are exact: a scaled tangent is the rational   *)
(*   vector [x, y, den] (x/den, y/den); an output component, which may be  *)
(*   irrational, is [sign, sq] with sq = <<num, den>> its square.          *)
(*   eps = np.spacing(1) = 2^-52.  Every non-zero length that arises from  *)
(*   the bounded integer inputs is far above eps, so np.maximum(x, eps)    *)
(*   is eps exactly when x = 0, and then the numerator it divides is 0.    *)
(***************************************************************************)
\* lines 58-65: the tangent of segment k divided by max(squared length, eps)
scaledTangent(vertices, k) ==
    LET DT == VecSub(At(vertices, k), At(vertices, k + 1))
        LLsq == Dot(DT, DT)
    IN  IF LLsq = 0 THEN [x |-> 0, y |-> 0, den |-> 1]        \* 0 / eps
        ELSE [x |-> DT[1], y |-> DT[2], den |-> LLsq]

RatVecAdd(u, v) ==
    [x |-> u.x * v.den + v.x * u.den, y |-> u.y * v.den + v.y * u.den, den |-> u.den * v.den]

ZeroVec == [x |-> 0, y |-> 0, den |-> 1]

\* lines 68-72: row v of D = D1 + D2
tangentSum(vertices, v) ==
    LET numVertices == Len(vertices)
        D1 == IF v <= numVertices - 2 THEN scaledTangent(vertices, v) ELSE ZeroVec
        D2 == IF v >= 1 THEN scaledTangent(vertices, v - 1) ELSE ZeroVec
    IN  RatVecAdd(D1, D2)

Sign(x) == IF x > 0 THEN 1 ELSE IF x < 0 THEN -1 ELSE 0

\* the number num/den as an output component
Component(num, den) == [sign |-> Sign(num), sq |-> Rat(num * num, den * den)]

\* a variant of lines 75-84 without the division by the length LL
normalizeNot(D, perpendicular) ==
    IF perpendicular
    THEN <<Component(-D.y, D.den), Component(D.x, D.den)>>
    ELSE <<Component(D.x, D.den), Component(D.y, D.den)>>

\* lines 75-84: D / max(|D|, eps), rotated when perpendicular.
\* (x/den) / (sqrt(x^2 + y^2)/den) = x / sqrt(x^2 + y^2)
normalize(D, perpendicular) ==
    LET LLsq == D.x * D.x + D.y * D.y
        quot(c) == IF LLsq = 0 THEN [sign |-> 0, sq |-> <<0, 1>>]     \* 0 / eps
                   ELSE [sign |-> Sign(c), sq |-> Rat(c * c, LLsq)]
    IN  IF perpendicular THEN <<quot(-D.y), quot(D.x)>>
        ELSE <<quot(D.x), quot(D.y)>>

lineNormals2D(vertices, perpendicular) ==
    LET numVertices == Len(vertices)
    IN  IF numVertices # 0 /\ numVertices < 2 THEN Raise("ValueError")
        ELSE IF numVertices = 0 THEN Value(1, <<>>)
        ELSE Value(2, [k \in 1 .. numVertices |->
                          normalize(tangentSum(vertices, k - 1), perpendicular)])

\* bound of the lineNormals2D inputs
MaxVertices == 3

NormalPoints == {0, 1, 2} \X {0, 1}

InitNormals ==
    /\ pc = "call"
    /\ ret = NoRet
    /\ args \in [vertices : SeqsUpTo(NormalPoints, 0, MaxVertices), perpendicular : BOOLEAN]

CallLineNormals2D ==
    /\ pc = "call"
    /\ ret' = lineNormals2D(args.vertices, args.perpendicular)
    /\ pc' = "done"
    /\ UNCHANGED args

SpecNormals == InitNormals /\ [][CallLineNormals2D]_vars

\* the squared magnitude of an output row is 1
UnitRow(row) ==
    row[1].sq[1] * row[2].sq[2] + row[2].sq[1] * row[1].sq[2] = row[1].sq[2] * row[2].sq[2]

NullRow(row) == row[1].sign = 0 /\ row[2].sign = 0

\* vertex v (0-based) has no direction: every segment at v has length zero, or
\* v is an interior vertex whose two segments have equal length and opposite
\* directions (the polyline turns back onto its previous vertex)
NoDirection(vertices, v) ==
    LET n == Len(vertices)
        hasPrev == v >= 1
        hasNext == v <= n - 2
        prevZero == ~hasPrev \/ At(vertices, v - 1) = At(vertices, v)
        nextZero == ~hasNext \/ At(vertices, v + 1) = At(vertices, v)
    IN  \/ prevZero /\ nextZero
        \/ hasPrev /\ hasNext /\ ~prevZero /\ At(vertices, v - 1) = At(vertices, v + 1)

\* C10 as stated: for 2 or more vertices the result has one row per vertex and
\* every row has magnitude 1, for both values of perpendicular.
C10_EveryRowUnit ==
    (pc = "done" /\ Len(args.vertices) >= 2) =>
        /\ ret.kind = "value"
        /\ Len(ret.val) = Len(args.vertices)
        /\ \A k \in DOMAIN ret.val : UnitRow(ret.val[k])

\* C10 amended: for 2 or more vertices (a float table) the result has one row
\* per vertex; a row has magnitude 1 unless its vertex has no direction (all
\* its segments have length zero, or its two segments cancel), and then it is
\* the all-zero row; for both values of perpendicular.
C10_UnitUnlessNoDirection ==
    (pc = "done" /\ Len(args.vertices) >= 2) =>
        /\ ret.kind = "value"
        /\ Len(ret.val) = Len(args.vertices)
        /\ \A k \in DOMAIN ret.val :
              IF NoDirection(args.vertices, k - 1)
              THEN NullRow(ret.val[k])
              ELSE UnitRow(ret.val[k]) /\ ~NullRow(ret.val[k])

\* three vertices, the last back on the first: unit rows at the ends, the
\* all-zero row in the middle, with perpendicular set
C10_Witness ==
    /\ pc = "done"
    /\ args.perpendicular
    /\ args.vertices = <<<<0, 0>>, <<2, 1>>, <<0, 0>>>>
    /\ ret.kind = "value"
    /\ UnitRow(ret.val[1])
    /\ NullRow(ret.val[2])
    /\ UnitRow(ret.val[3])

=============================================================================
